---- MODULE Spec2Model ----
(***************************************************************************)
(* Model of the fitbox helper: the relay (fitbox-helper-server: index.js   *)
(* and gemini-session.js) and the client-leg connection supervisor of the  *)
(* extension (fitbox-helper-extension/background.js).                      *)
(*                                                                         *)
(* The relay part follows one client connection of wss.on('connection')    *)
(* and the GeminiSession objects created for it.  The repository holds two *)
(* texts of GeminiSession.handleClientMessage (gemini-session.js and the   *)
(* copy in front of index.js); the variable build says which one runs.     *)
(***************************************************************************)
EXTENDS Integers, Sequences, FiniteSets, TLC

\* ------------------------------------------------------------------ bounds
MaxSessions == 2        \* GeminiSession objects constructed per client connection
MaxClientFrames == 3    \* frames received from the client
MaxUpstreamFrames == 2  \* frames received from upstream
MaxPayload == 2         \* distinct binary payloads

\* ------------------------------------------------------- relay: variables
VARIABLES
    build,              \* "server": gemini-session.js, "bundle": the copy in part_002
    env,                \* process.env: "configured", "missing" (host or key absent), "invalid_host"
    clientReadyState,   \* ws.readyState of the client connection
    wsGeminiSession,    \* ws.geminiSession: 0 is null, else the index of the session
    sessions,           \* the GeminiSession objects constructed so far, with their transport
    toClient,           \* frames sent to the client with clientWs.send, in order
    clientFrames,       \* number of frames received from the client
    upstreamFrames,     \* number of frames received from upstream
    starts,             \* number of start_ai_session messages received (history)
    clientClosedOn,     \* the message of the error frame on which the client closed the
                        \* connection, "none" if it has not (history)
    binaryIn,           \* the binary frames received from the client, in order, each with
                        \* ws.geminiSession at its arrival and whether that session was
                        \* ready with its transport open (history)
    kb,                 \* a call of getKnowledgeForScreen: its argument and what it returned
    bg                  \* the globals of background.js, the objects they refer to, the
                        \* suspended asynchronous calls, and the history of the retries

relayVars == <<build, env, clientReadyState, wsGeminiSession, sessions,
               toClient, clientFrames, upstreamFrames, starts, binaryIn,
               clientClosedOn>>

extVars == <<bg>>

vars == <<relayVars, extVars, kb>>

Payloads == 1..MaxPayload

\* text frames of the client, by what JSON.parse makes of them
TextFrames == {"start_ai_session", "context", "unknown_type", "no_type",
               "json_string", "json_null", "malformed"}

\* frames of upstream, by what JSON.parse makes of them
UpstreamFrameKinds == {"setupComplete", "serverContent", "toolCall",
                       "toolCallCancellation", "error", "unknown", "malformed"}

CloseCodes == {1000, 1006}

Frame(k, d) == [kind |-> k, data |-> d]

\* Buffer.from(audioBuffer).toString('base64')
Base64(p) == <<"base64", p>>

\* JSON.parse(messageString) followed by the read of parsedMessage.type:
\* 'null' parses but .type throws, both end in the catch block
ParseThrows(text) == text \in {"malformed", "json_null"}

\* Message(type, message): a structured frame for the client
Message(t, m) == [type |-> t, message |-> m]

\* ws.close() of the 'ws' library, by the readyState of the transport: a
\* connecting transport aborts its handshake (an 'error' then a 'close' event
\* follow, never 'open'); an open one sends its close frame and can still
\* receive until the 'close' event.  "FAILING" is the library's CLOSING state
\* of a transport that will receive nothing more.
TransportClose(t) ==
    CASE t.readyState = "CONNECTING" -> [t EXCEPT !.readyState = "FAILING", !.errPending = TRUE]
      [] t.readyState = "OPEN"       -> [t EXCEPT !.readyState = "CLOSING"]
      [] OTHER                       -> t

NewSession ==
    [geminiWs |-> FALSE, isConnectedToGemini |-> FALSE, currentContext |-> FALSE,
     readyState |-> "NONE", errPending |-> FALSE, gotSetupComplete |-> FALSE,
     gotErrorFrame |-> FALSE, connects |-> 0, readyStrings |-> 0,
     closes |-> 0, closeCalls |-> 0, closeCode |-> 0, sent |-> <<>>]

\* close() that forgets to drop the transport reference
closeKeepsTransport(s) ==
    IF s.geminiWs
    THEN [TransportClose(s) EXCEPT !.closes = @ + 1,
                                   !.closeCalls = @ + 1, !.closeCode = 1000,
                                   !.isConnectedToGemini = FALSE]
    ELSE [s EXCEPT !.closes = @ + 1, !.isConnectedToGemini = FALSE]

\* GeminiSession.close.  closes counts the calls of close(), closeCalls the
\* calls of geminiWs.close() and closeCode keeps the code given to it.
close(s) ==
    IF s.geminiWs
    THEN [TransportClose(s) EXCEPT !.closes = @ + 1,
                                   !.closeCalls = @ + 1, !.closeCode = 1000,
                                   !.geminiWs = FALSE, !.isConnectedToGemini = FALSE]
    ELSE [s EXCEPT !.closes = @ + 1, !.isConnectedToGemini = FALSE]

\* clientWs.send under the guard clientWs.readyState === WebSocket.OPEN
\* (sendToClient, _sendErrorToClient, _proxyMessageToClient)
sendToClient(tc, msg) ==
    IF clientReadyState = "OPEN" THEN Append(tc, msg) ELSE tc

\* GeminiSession.handleAudioInput (gemini-session.js)
handleAudioInput(s, chunk) ==
    IF ~s.geminiWs \/ s.readyState # "OPEN" THEN s
    ELSE [s EXCEPT !.sent = Append(@, Frame("realtimeInput", chunk))]

\* _sendAudioToGemini whose frame overtakes the frames sent before it
sendAudioToGeminiOvertaking(s, p) ==
    IF ~s.isConnectedToGemini \/ ~s.geminiWs \/ s.readyState # "OPEN" THEN s
    ELSE [s EXCEPT !.sent = <<Frame("audio_content", Base64(p))>> \o @]

\* GeminiSession._sendAudioToGemini (part_002)
sendAudioToGemini(s, p) ==
    IF ~s.isConnectedToGemini \/ ~s.geminiWs \/ s.readyState # "OPEN" THEN s
    ELSE [s EXCEPT !.sent = Append(@, Frame("audio_content", Base64(p)))]

\* GeminiSession.handleClientMessage of gemini-session.js.  msg is what
\* index.js passes: the raw Buffer of a binary frame or the parsed text frame.
handleClientMessageServer(s, msg) ==
    IF ~s.isConnectedToGemini THEN s
    ELSE CASE msg.kind \in {"context"}                   -> [s EXCEPT !.currentContext = TRUE]
           [] msg.kind = "unknown_type"                  -> s
           [] msg.kind = "json_string"                   -> handleAudioInput(s, <<"text", 0>>)
           [] OTHER                                      -> s

\* GeminiSession.handleClientMessage of part_002
handleClientMessageBundle(s, msg) ==
    IF msg.kind \notin {"binary", "context", "unknown_type"} THEN s
    ELSE IF ~s.isConnectedToGemini THEN s
    ELSE CASE msg.kind = "context" -> [s EXCEPT !.currentContext = TRUE]
           [] msg.kind = "binary"  -> sendAudioToGemini(s, msg.data)
           [] OTHER                -> s

\* handleClientMessage of the text that runs; readyStrings counts the text
\* frames holding a JSON string that came while the session was connected
\* with its transport open (history)
handleClientMessage(s, msg) ==
    LET r == IF build = "server" THEN handleClientMessageServer(s, msg)
             ELSE handleClientMessageBundle(s, msg)
    IN IF msg.kind = "json_string" /\ s.isConnectedToGemini /\ s.geminiWs
          /\ s.readyState = "OPEN"
       THEN [r EXCEPT !.readyStrings = @ + 1]
       ELSE r

RelayInit ==
    /\ build \in {"server", "bundle"}
    /\ env \in {"configured", "missing", "invalid_host"}
    /\ clientReadyState = "OPEN"
    /\ wsGeminiSession = 0
    /\ sessions = <<>>
    /\ toClient = <<>>
    /\ clientFrames = 0
    /\ upstreamFrames = 0
    /\ starts = 0
    /\ binaryIn = <<>>
    /\ clientClosedOn = "none"

\* a constructor without the test of the environment: it always connects
ConstructAlwaysConnects ==
    [session |-> [NewSession EXCEPT !.geminiWs = TRUE, !.readyState = "CONNECTING"],
     out |-> toClient]

\* new GeminiSession(ws, initialPrompt): the constructor and _connectToGemini.
\* Returns the object and the frames sent to the client.
Construct ==
    IF env = "missing"
    THEN [session |-> close(NewSession),
          out |-> sendToClient(toClient, Message("error", "config_missing"))]
    ELSE IF env = "invalid_host"
    THEN [session |-> close(NewSession),
          out |-> sendToClient(toClient, Message("error", "init_failed"))]
    ELSE [session |-> [NewSession EXCEPT !.geminiWs = TRUE, !.readyState = "CONNECTING",
                                         !.connects = 1],
          out |-> toClient]

\* the start_ai_session branch without its test of ws.geminiSession
StartAiSessionUnchecked ==
    /\ Len(sessions) < MaxSessions
    /\ sessions' = Append(sessions, Construct.session)
    /\ wsGeminiSession' = Len(sessions) + 1
    /\ toClient' = Construct.out

\* the start_ai_session branch of ws.on('message')
StartAiSession ==
    IF wsGeminiSession = 0
    THEN /\ Len(sessions) < MaxSessions
         /\ sessions' = Append(sessions, Construct.session)
         /\ wsGeminiSession' = Len(sessions) + 1
         /\ toClient' = Construct.out
    ELSE UNCHANGED <<sessions, wsGeminiSession, toClient>>

\* a handler that constructs a session for a frame that finds none
PassToSessionCreating(msg) ==
    IF wsGeminiSession # 0
    THEN /\ sessions' = [sessions EXCEPT ![wsGeminiSession] = handleClientMessage(@, msg)]
         /\ UNCHANGED <<wsGeminiSession, toClient>>
    ELSE /\ Len(sessions) < MaxSessions
         /\ sessions' = Append(sessions, Construct.session)
         /\ wsGeminiSession' = Len(sessions) + 1
         /\ toClient' = Construct.out

\* ws.on('message'): if (ws.geminiSession) ws.geminiSession.handleClientMessage(...),
\* else the frame is dropped with a warning
PassToSession(msg) ==
    IF wsGeminiSession # 0
    THEN /\ sessions' = [sessions EXCEPT ![wsGeminiSession] = handleClientMessage(@, msg)]
         /\ UNCHANGED <<wsGeminiSession, toClient>>
    ELSE UNCHANGED <<sessions, wsGeminiSession, toClient>>

\* the session of the connection is ready and its transport is open
SessionReady ==
    /\ wsGeminiSession # 0
    /\ sessions[wsGeminiSession].isConnectedToGemini
    /\ sessions[wsGeminiSession].geminiWs
    /\ sessions[wsGeminiSession].readyState = "OPEN"

\* ws.on('message') of index.js, binary frame
ClientBinary(p) ==
    /\ clientReadyState = "OPEN"
    /\ clientFrames < MaxClientFrames
    /\ clientFrames' = clientFrames + 1
    /\ PassToSession(Frame("binary", p))
    /\ binaryIn' = Append(binaryIn, [data |-> p, ready |-> SessionReady,
                                      session |-> wsGeminiSession])
    /\ UNCHANGED <<bg, kb, clientClosedOn, build, env, clientReadyState, upstreamFrames, starts>>

\* ws.on('message') of index.js, text frame
ClientText(text) ==
    /\ clientReadyState = "OPEN"
    /\ clientFrames < MaxClientFrames
    /\ clientFrames' = clientFrames + 1
    /\ starts' = IF text = "start_ai_session" THEN starts + 1 ELSE starts
    /\ IF ParseThrows(text)
       THEN UNCHANGED <<sessions, wsGeminiSession, toClient>>
       ELSE IF text = "start_ai_session"
       THEN StartAiSession
       ELSE PassToSession(Frame(text, 0))
    /\ UNCHANGED <<bg, kb, clientClosedOn, binaryIn, build, env, clientReadyState, upstreamFrames>>

\* a client-close handler that clears the reference without closing the session
ReleaseSessionNoClose ==
    /\ wsGeminiSession' = 0
    /\ UNCHANGED sessions

\* the body shared by ws.on('close') and ws.on('error') of index.js
ReleaseSession ==
    IF wsGeminiSession # 0
    THEN /\ sessions' = [sessions EXCEPT ![wsGeminiSession] = close(@)]
         /\ wsGeminiSession' = 0
    ELSE UNCHANGED <<sessions, wsGeminiSession>>

\* ws.on('close') of index.js
ClientClose ==
    /\ clientReadyState \in {"OPEN", "CLOSING"}
    /\ clientReadyState' = "CLOSED"
    /\ ReleaseSession
    /\ UNCHANGED <<bg, kb, clientClosedOn, binaryIn, build, env, toClient, clientFrames, upstreamFrames, starts>>

\* the first frame of type error sent to the client
FirstError ==
    toClient[CHOOSE n \in DOMAIN toClient :
                /\ toClient[n].type = "error"
                /\ \A m \in 1..(n - 1) : toClient[m].type # "error"]

\* The client is the extension: handleServerMessage of background.js, case
\* 'error', ends with closeWebSocket(false), which closes the connection with
\* code 1000; ws.on('close') of index.js follows.
ClientClosesOnError ==
    /\ clientReadyState = "OPEN"
    /\ \E n \in DOMAIN toClient : toClient[n].type = "error"
    /\ clientClosedOn' = FirstError.message
    /\ clientReadyState' = "CLOSED"
    /\ ReleaseSession
    /\ UNCHANGED <<bg, kb, binaryIn, build, env, toClient, clientFrames, upstreamFrames, starts>>

\* ws.on('error') of index.js; the library closes the connection and
\* delivers no further message, the 'close' event follows
ClientError ==
    /\ clientReadyState = "OPEN"
    /\ clientReadyState' = "CLOSING"
    /\ ReleaseSession
    /\ UNCHANGED <<bg, kb, clientClosedOn, binaryIn, build, env, toClient, clientFrames, upstreamFrames, starts>>

\* an 'open' handler that announces the session without the setup frame
UpstreamOpenNoSetup(i) ==
    /\ i \in DOMAIN sessions
    /\ sessions[i].readyState = "CONNECTING"
    /\ sessions' = [sessions EXCEPT ![i] =
                       [@ EXCEPT !.readyState = "OPEN",
                                 !.isConnectedToGemini = TRUE]]
    /\ toClient' = sendToClient(toClient, Message("ai_ready", "initialContext"))
    /\ UNCHANGED <<bg, kb, clientClosedOn, binaryIn, build, env, clientReadyState,
                   wsGeminiSession, clientFrames, upstreamFrames, starts>>

\* geminiWs.on('open')
UpstreamOpen(i) ==
    /\ i \in DOMAIN sessions
    /\ sessions[i].readyState = "CONNECTING"
    /\ sessions' = [sessions EXCEPT ![i] =
                       [@ EXCEPT !.readyState = "OPEN",
                                 !.isConnectedToGemini = TRUE,
                                 !.sent = Append(@, Frame("setup", <<"TEXT", "AUDIO">>))]]
    /\ toClient' = sendToClient(toClient, Message("ai_ready", "initialContext"))
    /\ UNCHANGED <<bg, kb, clientClosedOn, binaryIn, build, env, clientReadyState, wsGeminiSession, clientFrames, upstreamFrames, starts>>

\* _sendQueuedClientMessages that sends a frame kept from before the session was ready
sendQueuedClientMessagesFlushing(s) ==
    IF s.geminiWs /\ s.readyState = "OPEN" /\ (\E n \in DOMAIN binaryIn : ~binaryIn[n].ready)
    THEN [s EXCEPT !.sent = Append(@, Frame("audio_content",
                      Base64(binaryIn[CHOOSE n \in DOMAIN binaryIn : ~binaryIn[n].ready].data)))]
    ELSE s

\* GeminiSession._sendQueuedClientMessages: a placeholder that only logs
sendQueuedClientMessages(s) == s

\* geminiWs.on('message')
UpstreamMessage(i, k) ==
    /\ i \in DOMAIN sessions
    /\ sessions[i].readyState \in {"OPEN", "CLOSING"}
    /\ upstreamFrames < MaxUpstreamFrames
    /\ upstreamFrames' = upstreamFrames + 1
    /\ sessions' = CASE k = "setupComplete" ->
                            [sessions EXCEPT ![i] =
                                sendQueuedClientMessages([@ EXCEPT !.gotSetupComplete = TRUE])]
                     [] k = "error"         -> [sessions EXCEPT ![i].gotErrorFrame = TRUE]
                     [] OTHER               -> sessions
    /\ toClient' =
         CASE k = "malformed"     -> sendToClient(toClient, Message("error", "malformed_upstream"))
           [] k = "serverContent" -> sendToClient(toClient, Message("serverContent", "content"))
           [] k = "error"         -> sendToClient(toClient, Message("error", "ai_service_error"))
           [] OTHER               -> toClient
    /\ UNCHANGED <<bg, kb, clientClosedOn, binaryIn, build, env, clientReadyState, wsGeminiSession, clientFrames, starts>>

\* geminiWs.on('error'); the 'close' event follows
UpstreamError(i) ==
    /\ i \in DOMAIN sessions
    /\ \/ sessions[i].readyState \in {"CONNECTING", "OPEN", "CLOSING"}
       \/ sessions[i].readyState = "FAILING" /\ sessions[i].errPending
    /\ sessions' = [sessions EXCEPT ![i] =
                       [@ EXCEPT !.readyState = "FAILING", !.errPending = FALSE,
                                 !.isConnectedToGemini = FALSE]]
    /\ toClient' = sendToClient(toClient, Message("error", "connection_error"))
    /\ UNCHANGED <<bg, kb, clientClosedOn, binaryIn, build, env, clientReadyState, wsGeminiSession, clientFrames, upstreamFrames, starts>>

\* a 'close' handler that connects again instead of giving the session up
UpstreamCloseReconnects(i, code) ==
    /\ i \in DOMAIN sessions
    /\ \/ sessions[i].readyState \in {"OPEN", "CLOSING"}
       \/ sessions[i].readyState = "FAILING" /\ ~sessions[i].errPending /\ code # 1000
    /\ sessions[i].connects < 2
    /\ sessions' = [sessions EXCEPT ![i] =
                       [close(@) EXCEPT !.readyState = "CONNECTING", !.geminiWs = TRUE,
                                        !.connects = @ + 1]]
    /\ toClient' = toClient
    /\ UNCHANGED <<bg, kb, clientClosedOn, binaryIn, build, env, clientReadyState, wsGeminiSession, clientFrames, upstreamFrames, starts>>

\* geminiWs.on('close')
UpstreamClose(i, code) ==
    /\ i \in DOMAIN sessions
    /\ \/ sessions[i].readyState \in {"OPEN", "CLOSING"}
       \/ sessions[i].readyState = "FAILING" /\ ~sessions[i].errPending /\ code # 1000
    /\ sessions' = [sessions EXCEPT ![i] =
                       close([@ EXCEPT !.readyState = "CLOSED",
                                       !.isConnectedToGemini = FALSE,
                                       !.geminiWs = FALSE])]
    /\ toClient' = IF code # 1000
                   THEN sendToClient(toClient, Message("error", "closed_unexpectedly"))
                   ELSE toClient
    /\ UNCHANGED <<bg, kb, clientClosedOn, binaryIn, build, env, clientReadyState, wsGeminiSession, clientFrames, upstreamFrames, starts>>

RelayNext ==
    \/ \E p \in Payloads : ClientBinary(p)
    \/ \E text \in TextFrames : ClientText(text)
    \/ ClientClose
    \/ ClientError
    \/ ClientClosesOnError
    \/ \E i \in 1..MaxSessions : UpstreamOpen(i)
    \/ \E i \in 1..MaxSessions, k \in UpstreamFrameKinds : UpstreamMessage(i, k)
    \/ \E i \in 1..MaxSessions : UpstreamError(i)
    \/ \E i \in 1..MaxSessions, code \in CloseCodes : UpstreamClose(i, code)


\* ------------------------------------------------------- relay: properties
IsAudio(f) == f.kind \in {"realtimeInput", "audio_content"}

AudioSent(s) == \E n \in DOMAIN s.sent : IsAudio(s.sent[n])

AiReadySent == \E n \in DOMAIN toClient : toClient[n].type = "ai_ready"

Live(s) == s.readyState \in {"CONNECTING", "OPEN"}

\* C1: while a session has not received setupComplete from upstream, it has
\* sent no audio frame upstream.
C1_NoAudioBeforeSetupComplete ==
    \A i \in DOMAIN sessions : ~sessions[i].gotSetupComplete => ~AudioSent(sessions[i])

\* C2: ai_ready is sent to the client, and the session is marked ready, only
\* after setupComplete has been received on the session's upstream connection.
C2_ReadyOnlyAfterSetupComplete ==
    /\ \A i \in DOMAIN sessions :
          sessions[i].isConnectedToGemini => sessions[i].gotSetupComplete
    /\ AiReadySent => \E i \in DOMAIN sessions : sessions[i].gotSetupComplete

\* C3: of the start_ai_session messages received on one client connection only
\* the first constructs a GeminiSession and opens an upstream connection.
C3_OnlyFirstStartCreates ==
    /\ Len(sessions) <= 1
    /\ Len(sessions) = (IF starts >= 1 THEN 1 ELSE 0)
    /\ Cardinality({i \in DOMAIN sessions : sessions[i].readyState # "NONE"}) <= 1

\* C3 witness: a second start_ai_session was received with a session in place.
C3_Witness ==
    /\ starts >= 2
    /\ Len(sessions) = 1
    /\ wsGeminiSession = 1

\* C8: geminiWs.close() is invoked at most once per session, and once close()
\* has been called the session holds no transport and is not connected.
C8_CloseIdempotent ==
    \A i \in DOMAIN sessions :
        /\ sessions[i].closeCalls <= 1
        /\ sessions[i].closes >= 1 =>
              ~sessions[i].geminiWs /\ ~sessions[i].isConnectedToGemini

\* C8 witness: close() ran twice on a session whose transport it closed once
\* (the client 'close' handler, then the upstream 'close' handler).
C8_Witness ==
    \E i \in DOMAIN sessions :
        sessions[i].closes >= 2 /\ sessions[i].closeCalls = 1

\* C9: after the client connection has closed, ws.geminiSession is null, no
\* session of that connection has a live upstream connection, and the upstream
\* connection the handler closed was closed with code 1000.
C9_ClientCloseReleasesSession ==
    clientReadyState = "CLOSED" =>
        /\ wsGeminiSession = 0
        /\ \A i \in DOMAIN sessions :
              /\ ~Live(sessions[i])
              /\ sessions[i].closeCalls >= 1 => sessions[i].closeCode = 1000

\* C9 witness: the client connection closed while its session's upstream
\* connection was open, and the handler closed it.
C9_Witness ==
    /\ clientReadyState = "CLOSED"
    /\ \E i \in DOMAIN sessions :
          /\ sessions[i].closeCalls = 1
          /\ sessions[i].closeCode = 1000
          /\ sessions[i].readyState = "CLOSING"

\* C10: a session whose upstream connection has closed is no longer referred
\* to by ws.geminiSession.
C10_UpstreamCloseReleasesSession ==
    \A i \in DOMAIN sessions :
        sessions[i].readyState = "CLOSED" => wsGeminiSession # i

\* C11: with GEMINI_API_HOST or GEMINI_API_KEY missing, once the client has
\* sent start_ai_session it has received exactly one frame, the error frame
\* of the missing configuration, and no session has ever had a transport: the
\* reference is null, the session is not connected and nothing was sent upstream.
C11_MissingConfigOneError ==
    (env = "missing" /\ starts >= 1) =>
        /\ toClient = <<Message("error", "config_missing")>>
        /\ \A i \in DOMAIN sessions :
              /\ ~sessions[i].geminiWs
              /\ ~sessions[i].isConnectedToGemini
              /\ sessions[i].readyState = "NONE"
              /\ sessions[i].sent = <<>>

\* C11 witness: the configuration is missing, start_ai_session came twice and
\* another frame after it, and the client connection is still open.
C11_Witness ==
    /\ env = "missing"
    /\ starts >= 2
    /\ clientFrames > starts
    /\ Len(sessions) = 1
    /\ clientReadyState = "OPEN"

\* C12: a session that has received a frame with an error field from upstream
\* is closed: it is not connected and its upstream connection is not live.
C12_UpstreamErrorClosesSession ==
    \A i \in DOMAIN sessions :
        sessions[i].gotErrorFrame =>
            ~sessions[i].isConnectedToGemini /\ ~Live(sessions[i])

\* the frames sent upstream on any session that equal f
SentFrames(f) ==
    UNION {{<<i, n>> : n \in {m \in DOMAIN sessions[i].sent : sessions[i].sent[m] = f}} :
             i \in DOMAIN sessions}

\* C13: for every payload, the binary frames received with it while the session
\* was ready and its transport open are as many as the frames
\* {realtimeInput: {media_chunks: [base64 of the payload]}} sent upstream, and
\* no payload is sent in another shape.
C13_BinaryForwardedAsRealtimeInput ==
    \A p \in Payloads :
        /\ Cardinality({n \in DOMAIN binaryIn : binaryIn[n].ready /\ binaryIn[n].data = p})
             = Cardinality(SentFrames(Frame("realtimeInput", Base64(p))))
        /\ SentFrames(Frame("audio_content", Base64(p))) = {}

\* the payloads of the binary frames carried by the frames of a sequence sent upstream
RECURSIVE BinaryPayloads(_)
BinaryPayloads(sent) ==
    IF sent = <<>> THEN <<>>
    ELSE IF IsAudio(Head(sent)) /\ Head(sent).data[1] = "base64"
         THEN <<Head(sent).data[2]>> \o BinaryPayloads(Tail(sent))
         ELSE BinaryPayloads(Tail(sent))

\* a is b with some of its elements left out
RECURSIVE IsSubsequence(_, _)
IsSubsequence(a, b) ==
    IF a = <<>> THEN TRUE
    ELSE IF b = <<>> THEN FALSE
    ELSE IF Head(a) = Head(b) THEN IsSubsequence(Tail(a), Tail(b))
    ELSE IsSubsequence(a, Tail(b))

\* C14: the payloads of the audio frames a session has sent upstream are, in
\* the order they were sent, a subsequence of the payloads of the binary frames
\* received from the client.
C14_AudioOrderPreserved ==
    \A i \in DOMAIN sessions :
        IsSubsequence(BinaryPayloads(sessions[i].sent),
                      [n \in DOMAIN binaryIn |-> binaryIn[n].data])

\* C14 witness: two binary frames with different payloads were received and
\* both were forwarded.
C14_Witness ==
    /\ Len(binaryIn) = 2
    /\ binaryIn[1].data # binaryIn[2].data
    /\ \E i \in DOMAIN sessions :
          /\ Len(BinaryPayloads(sessions[i].sent)) = 2
          /\ BinaryPayloads(sessions[i].sent)[1] # BinaryPayloads(sessions[i].sent)[2]

\* C15: a text frame of the client that does not parse as a JSON object is
\* dropped: no frame sent upstream carries the content of such a text frame,
\* and only start_ai_session messages have constructed sessions.
C15_NonObjectTextDropped ==
    /\ \A i \in DOMAIN sessions :
          \A n \in DOMAIN sessions[i].sent : sessions[i].sent[n].data[1] # "text"
    /\ Len(sessions) <= starts

\* C18: sessions are constructed by start_ai_session messages only: until
\* the first one is received ws.geminiSession is null, no GeminiSession exists
\* and nothing has been sent to the client, whatever frames came in.
C18_SessionOnlyByStart ==
    /\ Len(sessions) <= starts
    /\ starts = 0 => (wsGeminiSession = 0 /\ sessions = <<>> /\ toClient = <<>>)

\* C18 witness: a binary frame and a control frame were received with no
\* start_ai_session before them.
C18_Witness ==
    /\ starts = 0
    /\ Len(binaryIn) >= 1
    /\ clientFrames > Len(binaryIn)

\* C19: no frame that fails to parse tears the session down: the client
\* connection is never closed on account of an upstream frame that could not be
\* parsed.
C19_MalformedFrameNotFatal ==
    clientClosedOn # "malformed_upstream"

\* C20: a GeminiSession creates at most one transport in its lifetime, and
\* once close() has run on it or its transport has closed it has no live
\* transport, holds no transport and is not connected.
C20_OneUpstreamPerSession ==
    \A i \in DOMAIN sessions :
        /\ sessions[i].connects <= 1
        /\ (sessions[i].closes >= 1 \/ sessions[i].readyState = "CLOSED") =>
              /\ ~Live(sessions[i])
              /\ ~sessions[i].geminiWs
              /\ ~sessions[i].isConnectedToGemini

\* C20 witness: the transport of a session has closed, close() has run, and
\* two more frames of the client were handled with the session still in place.
C20_Witness ==
    \E i \in DOMAIN sessions :
        /\ sessions[i].connects = 1
        /\ sessions[i].readyState = "CLOSED"
        /\ sessions[i].closes >= 1
        /\ wsGeminiSession = i
        /\ clientFrames >= 3

\* the payloads of the binary frames received while the session was ready
RECURSIVE ReadyPayloads(_)
ReadyPayloads(in) ==
    IF in = <<>> THEN <<>>
    ELSE IF Head(in).ready THEN <<Head(in).data>> \o ReadyPayloads(Tail(in))
    ELSE ReadyPayloads(Tail(in))

C29_UpstreamCloseNotFatal ==
    [][/\ \A i \in 1..MaxSessions, code \in CloseCodes :
            (UpstreamClose(i, code) /\ clientReadyState = "OPEN") =>
                toClient' = IF code = 1000 THEN toClient
                            ELSE Append(toClient, Message("error", "closed_unexpectedly"))
       /\ clientClosedOn' # "closed_unexpectedly"]_vars

\* C30: a session whose upstream transport has not opened has sent nothing
\* upstream; one whose transport has opened has sent exactly one setup frame
\* with the response modalities TEXT and AUDIO, and it is the first frame it
\* sent.
C30_SetupFrameFirst ==
    \A i \in DOMAIN sessions :
        /\ sessions[i].readyState \in {"NONE", "CONNECTING"} => sessions[i].sent = <<>>
        /\ (sessions[i].readyState \in {"OPEN", "CLOSING"} \/ sessions[i].sent # <<>>) =>
              /\ sessions[i].sent # <<>>
              /\ sessions[i].sent[1] = Frame("setup", <<"TEXT", "AUDIO">>)
              /\ \A n \in 2..Len(sessions[i].sent) : sessions[i].sent[n].kind # "setup"

\* C30 witness: a session has sent the setup frame and then an audio frame.
C30_Witness ==
    \E i \in DOMAIN sessions :
        /\ Len(sessions[i].sent) >= 2
        /\ sessions[i].sent[1].kind = "setup"
        /\ IsAudio(sessions[i].sent[2])

\* C31: while the client connection is open, every upstream frame with
\* serverContent, toolCall, toolCallCancellation or error appends exactly one
\* message to what the client is sent, and a frame of unknown shape sends
\* nothing and leaves the sessions as they are.
C31_RecognizedFramesTranslated ==
    [][\A i \in 1..MaxSessions :
          /\ \A k \in {"serverContent", "toolCall", "toolCallCancellation", "error"} :
                (clientReadyState = "OPEN" /\ UpstreamMessage(i, k)) =>
                    /\ Len(toClient') = Len(toClient) + 1
                    /\ SubSeq(toClient', 1, Len(toClient)) = toClient
          /\ UpstreamMessage(i, "unknown") =>
                (toClient' = toClient /\ sessions' = sessions)]_vars

\* ---------------------------------------------- extension: background.js
INITIAL_RETRY_DELAY == 1000
MAX_RETRY_DELAY == 30000

MaxSockets == 2     \* WebSocket objects alive at a time
MaxTasks == 2       \* asynchronous calls suspended at an await or a then() at a time
MaxQueue == 1       \* messages of the offscreen document waiting on the port
MaxRetries == 7     \* retries scheduled since the last reset of the backoff

Min(a, b) == IF a < b THEN a ELSE b

\* where a suspended asynchronous call waits
TaskPcs == {"setup_has", "setup_create", "close_has", "close_closeDocument"}

\* session is what the relay end of an open WebSocket has come to: "none",
\* "started" once start_ai_session was sent on it, "ready" once ai_ready was
\* received on it; it is "none" for a WebSocket that is not open
NoSocket == [readyState |-> "NONE", attached |-> FALSE, closeCalled |-> FALSE,
             session |-> "none"]

\* a WebSocket after closeWebSocket: its four handlers are null and
\* close(1000, reason) was called on it
ClosedSocket == [readyState |-> "CLOSING", attached |-> FALSE, closeCalled |-> TRUE,
                 session |-> "none"]

\* the globals of background.js when the service worker starts
InitialGlobals ==
         [ws |-> 0,
          connectionState |-> "disconnected",
          retryTimeout |-> FALSE,
          currentRetryDelay |-> INITIAL_RETRY_DELAY,
          connectionInitiatedByUser |-> FALSE,
          creatingOffscreenDocument |-> FALSE,
          offscreenReady |-> FALSE,
          backgroundToOffscreenPort |-> FALSE,
          \* objects and pending work
          sockets |-> [j \in 1..MaxSockets |-> NoSocket],
          lookups |-> 0,
          tasks |-> [pc \in TaskPcs |-> 0],
          docExists |-> FALSE,
          isRecording |-> FALSE,
          portQueue |-> <<>>,
          \* history
          scheduled |-> <<>>,       \* delays of the timers created since the last backoff reset
          restarted |-> FALSE,      \* initiateConnection came in the middle of the series scheduled
          timers |-> 0,             \* timers created and neither fired nor cancelled
          stopped |-> FALSE,        \* closeConnection handled, no initiateConnection since
          retriedBeforeStop |-> FALSE, \* stopped, and a retry timer was pending at that closeConnection
          exhausted |-> FALSE,      \* the 'retries exhausted' notification was sent
          notified |-> 0,           \* calls of sendErrorToPopup by the handler that ran last
          cancelled |-> 0,          \* pending timers cancelled by the handler that ran last
          skipped |-> 0,            \* retries skipped by the handler that ran last
          history |-> FALSE,        \* whether serverError and the session of a WebSocket are recorded
          serverError |-> FALSE]    \* an error message of the server was handled, no initiateConnection since

ExtInit == bg = InitialGlobals

wsOpen(x) == x.ws # 0 /\ x.sockets[x.ws].readyState = "OPEN"

Spawn(x, pc) == [x EXCEPT !.tasks[pc] = @ + 1]

\* retryTimeout = null without clearTimeout: the timer stays
forgetRetryTimeout(x) ==
    [x EXCEPT !.retryTimeout = FALSE]

\* clearTimeout(retryTimeout); retryTimeout = null
clearRetryTimeout(x) ==
    [x EXCEPT !.retryTimeout = FALSE, !.timers = IF x.retryTimeout THEN @ - 1 ELSE @,
              !.cancelled = IF x.retryTimeout THEN @ + 1 ELSE @]

\* the offscreen document receives stopAudioCapture on the port
postStopAudioCapture(x) ==
    IF x.backgroundToOffscreenPort
    THEN [x EXCEPT !.isRecording = FALSE] ELSE x

\* closeOffscreenDocument up to its first await
closeOffscreenDocument(x) == Spawn(postStopAudioCapture(x), "close_has")

\* setupOffscreenDocument up to its first await
setupOffscreenDocument(x) ==
    IF x.creatingOffscreenDocument THEN x ELSE Spawn(x, "setup_has")

\* setConnectionState that keeps the backoff when the state is connected
setConnectionStateKeepsBackoff(x, newState) ==
    LET x1 == [x EXCEPT !.connectionState = newState] IN
    IF newState = "connected"
    THEN x1
    ELSE IF newState \in {"disconnected", "error"}
    THEN LET x2 == postStopAudioCapture(x1)
             x3 == IF x2.connectionInitiatedByUser \/ newState = "error"
                   THEN clearRetryTimeout(x2) ELSE x2
         IN closeOffscreenDocument(x3)
    ELSE x1

\* setConnectionState(newState, statusMessage)
setConnectionState(x, newState) ==
    LET x1 == [x EXCEPT !.connectionState = newState] IN
    IF newState = "connected"
    THEN [clearRetryTimeout(x1) EXCEPT !.currentRetryDelay = INITIAL_RETRY_DELAY,
                                       !.scheduled = <<>>, !.restarted = FALSE]
    ELSE IF newState \in {"disconnected", "error"}
    THEN LET x2 == postStopAudioCapture(x1)
             x3 == IF x2.connectionInitiatedByUser \/ newState = "error"
                   THEN clearRetryTimeout(x2) ELSE x2
         IN closeOffscreenDocument(x3)
    ELSE x1

\* sendErrorToPopup(errorMessage, isCritical)
sendErrorToPopup(x) == [setConnectionState(x, "error") EXCEPT !.notified = @ + 1]

\* connectWebSocket up to the call of getCurrentFitboxTab()
connectWebSocket(x) ==
    IF wsOpen(x) THEN setConnectionState(x, "connected")
    ELSE IF x.connectionState = "connecting" THEN x
    ELSE [setConnectionState(x, "connecting") EXCEPT !.lookups = @ + 1]

\* scheduleReconnect whose doubling forgets the ceiling
scheduleReconnectNoCeiling(x) ==
    IF x.retryTimeout THEN x
    ELSE IF x.connectionState = "disconnected"
    THEN [x EXCEPT !.connectionInitiatedByUser = FALSE]
    ELSE IF x.currentRetryDelay <= MAX_RETRY_DELAY
    THEN [x EXCEPT !.retryTimeout = TRUE,
                   !.timers = @ + 1,
                   !.scheduled = Append(@, x.currentRetryDelay),
                   !.currentRetryDelay = x.currentRetryDelay * 2]
    ELSE [sendErrorToPopup(x) EXCEPT !.connectionInitiatedByUser = FALSE,
                                     !.exhausted = TRUE]

\* scheduleReconnect; the callback of the timer is RetryTimerFires
scheduleReconnect(x) ==
    IF x.retryTimeout THEN x
    ELSE IF x.connectionState = "disconnected"
    THEN [x EXCEPT !.connectionInitiatedByUser = FALSE]
    ELSE IF x.currentRetryDelay <= MAX_RETRY_DELAY
    THEN [x EXCEPT !.retryTimeout = TRUE,
                   !.timers = @ + 1,
                   !.scheduled = Append(@, x.currentRetryDelay),
                   !.currentRetryDelay = Min(x.currentRetryDelay * 2, MAX_RETRY_DELAY)]
    ELSE [sendErrorToPopup(x) EXCEPT !.connectionInitiatedByUser = FALSE,
                                     !.exhausted = TRUE]

\* closeWebSocket that leaves the retry timer alone
closeWebSocketKeepsTimer(x, manualDisconnect) ==
    LET x1 == [x EXCEPT !.currentRetryDelay = INITIAL_RETRY_DELAY, !.scheduled = <<>>, !.restarted = FALSE]
        x2 == IF manualDisconnect THEN [x1 EXCEPT !.connectionInitiatedByUser = FALSE] ELSE x1
        x3 == IF x2.ws # 0
              THEN [x2 EXCEPT !.ws = 0, !.sockets[x2.ws] = ClosedSocket]
              ELSE x2
    IN IF manualDisconnect /\ x3.connectionState # "disconnected"
       THEN setConnectionState(x3, "disconnected")
       ELSE x3

\* closeWebSocket that calls close() and leaves the handlers of the socket
closeWebSocketLeavesHandlers(x, manualDisconnect) ==
    LET x1 == [clearRetryTimeout(x) EXCEPT !.currentRetryDelay = INITIAL_RETRY_DELAY,
                                           !.scheduled = <<>>, !.restarted = FALSE]
        x2 == IF manualDisconnect THEN [x1 EXCEPT !.connectionInitiatedByUser = FALSE] ELSE x1
        x3 == IF x2.ws # 0
              THEN [x2 EXCEPT !.ws = 0,
                              !.sockets[x2.ws] = [ClosedSocket
                                                    EXCEPT !.attached = TRUE]]
              ELSE x2
    IN IF manualDisconnect /\ x3.connectionState # "disconnected"
       THEN setConnectionState(x3, "disconnected")
       ELSE x3

\* closeWebSocket(manualDisconnect): close() is called on the socket with its
\* four handlers set to null first
closeWebSocket(x, manualDisconnect) ==
    LET x1 == [clearRetryTimeout(x) EXCEPT !.currentRetryDelay = INITIAL_RETRY_DELAY,
                                           !.scheduled = <<>>, !.restarted = FALSE]
        x2 == IF manualDisconnect THEN [x1 EXCEPT !.connectionInitiatedByUser = FALSE] ELSE x1
        x3 == IF x2.ws # 0
              THEN [x2 EXCEPT !.ws = 0,
                              !.sockets[x2.ws] = ClosedSocket]
              ELSE x2
    IN IF manualDisconnect /\ x3.connectionState # "disconnected"
       THEN setConnectionState(x3, "disconnected")
       ELSE x3

\* handleServerMessage(message), by message.type
handleServerMessage(x, type) ==
    IF type = "error"
    THEN [closeWebSocket(setConnectionState(sendErrorToPopup(x), "error"), FALSE)
            EXCEPT !.serverError = x.history]
    ELSE x

\* connectPortToOffscreen: chrome.runtime.connect reaches the onConnect
\* listener of offscreen.js, which answers with offscreenReady
connectPortToOffscreen(x) ==
    IF x.backgroundToOffscreenPort THEN x
    ELSE [x EXCEPT !.backgroundToOffscreenPort = TRUE,
                   !.portQueue = <<"offscreenReady">>]

\* sendToOffscreen(action): offscreen.js starts or stops its MediaRecorder
sendToOffscreen(x, action) ==
    IF x.backgroundToOffscreenPort
    THEN IF action = "startAudioCapture"
         THEN [x EXCEPT !.isRecording = TRUE]
         ELSE postStopAudioCapture(x)
    ELSE IF action = "startAudioCapture" THEN setupOffscreenDocument(x) ELSE x

startOffscreenAudioCapture(x) == sendToOffscreen(x, "startAudioCapture")

stopOffscreenAudioCapture(x) == sendToOffscreen(x, "stopAudioCapture")

\* sendStartAISession, and sendMessageToServer({type: 'context', ...}) after it
sendStartAISession(x) ==
    IF wsOpen(x) /\ x.history /\ x.sockets[x.ws].session = "none"
    THEN [x EXCEPT !.sockets[x.ws].session = "started"]
    ELSE x

\* the WebSocket on which the audioChunk case of handleOffscreenMessage sends
\* the chunk with ws.send(audioBuffer); 0 when it sends none
audioChunkSentOn(x) == IF wsOpen(x) THEN x.ws ELSE 0

\* a handleOffscreenMessage that takes the WebSocket to be open at offscreenReady
handleOffscreenMessageUnchecked(x, action) ==
    CASE action = "offscreenReady" ->
            startOffscreenAudioCapture(sendStartAISession(
                setConnectionState([x EXCEPT !.offscreenReady = TRUE], "connected")))
      [] action = "audioError" ->
            stopOffscreenAudioCapture(setConnectionState(sendErrorToPopup(x), "error"))
      [] OTHER -> x

\* handleOffscreenMessage(message), by message.action
handleOffscreenMessage(x, action) ==
    CASE action = "offscreenReady" ->
            LET x1 == [x EXCEPT !.offscreenReady = TRUE] IN
            IF wsOpen(x1)
            THEN startOffscreenAudioCapture(
                     sendStartAISession(setConnectionState(x1, "connected")))
            ELSE setConnectionState(x1, "error")
      [] action = "audioError" ->
            stopOffscreenAudioCapture(setConnectionState(sendErrorToPopup(x), "error"))
      [] OTHER -> x

\* the end of closeOffscreenDocument, after its awaits; port.disconnect()
\* reaches the onDisconnect listener of offscreen.js, which stops the capture
finishCloseOffscreenDocument(x) ==
    IF x.backgroundToOffscreenPort
    THEN [x EXCEPT !.offscreenReady = FALSE, !.backgroundToOffscreenPort = FALSE,
                   !.portQueue = <<>>, !.isRecording = FALSE]
    ELSE [x EXCEPT !.offscreenReady = FALSE]

\* a ws.onclose that takes every close for the end of the session
oncloseDisconnects(x) ==
    LET x1 == [x EXCEPT !.ws = 0] IN
    IF x.ws # 0 /\ x1.connectionState # "disconnected"
    THEN setConnectionState(x1, "disconnected")
    ELSE x1

\* a ws.onclose that schedules the retry without asking who started the attempt
oncloseAlwaysSchedules(x) ==
    LET x1 == [x EXCEPT !.ws = 0] IN
    IF x.ws # 0 /\ x1.connectionState # "disconnected"
    THEN scheduleReconnect(sendErrorToPopup(x1))
    ELSE x1

\* ws.onclose
onclose(x) ==
    LET x1 == [x EXCEPT !.ws = 0] IN
    IF x.ws # 0 /\ x1.connectionState # "disconnected"
    THEN LET x2 == sendErrorToPopup(x1) IN
         IF x2.connectionInitiatedByUser THEN scheduleReconnect(x2) ELSE x2
    ELSE x1

\* the bounds of the model, required of every state an action leads to
Bounded(x) ==
    /\ x.lookups + x.tasks["setup_has"] + x.tasks["setup_create"]
         + x.tasks["close_has"] + x.tasks["close_closeDocument"] <= MaxTasks
    /\ Len(x.portQueue) <= MaxQueue
    /\ Len(x.scheduled) <= MaxRetries

\* background.js tells one WebSocket object from another only by ws, so the
\* objects are kept in one order: by what they are (SockRank), the free
\* places last.
SockRank(sock) ==
    CASE sock.readyState = "NONE"       -> 8
      [] sock.readyState = "CONNECTING" -> 1
      [] sock.readyState = "OPEN"       -> CASE sock.session = "none"    -> 2
                                             [] sock.session = "started" -> 3
                                             [] OTHER                    -> 4
      [] ~sock.closeCalled              -> 5
      [] sock.attached                  -> 6
      [] OTHER                          -> 7

\* Place(x, j) is the place of socket j in that order.
Place(x, j) ==
    Cardinality({k \in 1..MaxSockets :
                    \/ SockRank(x.sockets[k]) < SockRank(x.sockets[j])
                    \/ SockRank(x.sockets[k]) = SockRank(x.sockets[j]) /\ k <= j})

\* of two objects that are alike, ws is taken to be the first
Compact(x) ==
    IF /\ \A n \in 1..(MaxSockets - 1) :
              SockRank(x.sockets[n]) <= SockRank(x.sockets[n + 1])
       /\ x.ws # 0 => \A k \in 1..(x.ws - 1) : x.sockets[k] # x.sockets[x.ws]
    THEN x
    ELSE
    [x EXCEPT !.ws = IF x.ws = 0 THEN 0
                     ELSE Place(x, CHOOSE j \in 1..MaxSockets :
                                      /\ x.sockets[j] = x.sockets[x.ws]
                                      /\ \A k \in 1..(j - 1) : x.sockets[k] # x.sockets[j]),
              !.sockets = [n \in 1..MaxSockets |->
                              x.sockets[CHOOSE j \in 1..MaxSockets : Place(x, j) = n]]]

\* one handler run to its end; notified, cancelled and skipped restart from
\* 0 with each handler
Step(x) ==
    /\ Bounded(x)
    /\ bg' = [Compact(x) EXCEPT !.notified = @ - bg.notified,
                                !.cancelled = @ - bg.cancelled,
                                !.skipped = @ - bg.skipped]
    /\ UNCHANGED <<relayVars, kb>>

\* chrome.runtime.onMessage, case 'initiateConnection'
InitiateConnection ==
    LET x == [bg EXCEPT !.stopped = FALSE, !.retriedBeforeStop = FALSE,
                        !.serverError = FALSE,
                        !.restarted = (bg.scheduled # <<>>)] IN
    IF bg.connectionState \in {"connected", "connecting"}
    THEN Step(setConnectionState(x, bg.connectionState))
    ELSE Step(connectWebSocket([x EXCEPT !.connectionInitiatedByUser = TRUE]))

\* chrome.runtime.onMessage, case 'closeConnection'
CloseConnection ==
    /\ Step([closeWebSocket(bg, TRUE) EXCEPT !.stopped = TRUE,
                                             !.retriedBeforeStop = bg.retryTimeout])

\* the continuation of getCurrentFitboxTab() in connectWebSocket: new WebSocket
LookupResolves(j) ==
    /\ bg.lookups > 0
    /\ bg.sockets[j].readyState = "NONE"
    /\ \A k \in 1..(j - 1) : bg.sockets[k].readyState # "NONE"
    /\ Step([bg EXCEPT !.lookups = @ - 1, !.ws = j,
                       !.sockets[j] = [readyState |-> "CONNECTING", attached |-> TRUE,
                                       closeCalled |-> FALSE, session |-> "none"]])

\* ws.onopen
SockOpen(j) ==
    /\ bg.sockets[j].readyState = "CONNECTING"
    /\ LET x == [bg EXCEPT !.sockets[j].readyState = "OPEN"] IN
       Step(IF bg.sockets[j].attached THEN setupOffscreenDocument(x) ELSE x)

\* a message event, with ws.onmessage when it is still attached; frames in
\* flight are still delivered after close() was called
SockMessage(j, type) ==
    /\ bg.sockets[j].readyState = "OPEN" \/ bg.sockets[j].closeCalled
    /\ LET x == IF type = "ai_ready" /\ bg.sockets[j].session = "started"
                THEN [bg EXCEPT !.sockets[j].session = "ready"] ELSE bg IN
       Step(IF bg.sockets[j].attached /\ bg.ws # 0
            THEN handleServerMessage(x, type) ELSE x)

\* a ws.onerror that reports the error itself
SockErrorReports(j) ==
    /\ bg.sockets[j].readyState \in {"CONNECTING", "OPEN"} \/ bg.sockets[j].closeCalled
    /\ LET x == [bg EXCEPT !.sockets[j].readyState = "CLOSING",
                           !.sockets[j].session = "none"] IN
       Step(IF bg.sockets[j].attached THEN sendErrorToPopup(x) ELSE x)

\* an error event, with ws.onerror when it is still attached: nothing but a
\* log; the close event follows
SockError(j) ==
    /\ bg.sockets[j].readyState \in {"CONNECTING", "OPEN"} \/ bg.sockets[j].closeCalled
    /\ Step([bg EXCEPT !.sockets[j].readyState = "CLOSING", !.sockets[j].session = "none"])

\* the close event of a WebSocket, with ws.onclose when it is still attached
SockClose(j) ==
    /\ bg.sockets[j].readyState \in {"CONNECTING", "OPEN", "CLOSING"}
    /\ LET x == [bg EXCEPT !.sockets[j] = NoSocket] IN
       Step(IF bg.sockets[j].attached THEN onclose(x) ELSE x)

\* a timer callback that schedules the next retry when it skips this one
RetryTimerFiresReschedules ==
    /\ bg.timers > 0
    /\ LET x == [bg EXCEPT !.timers = @ - 1, !.retryTimeout = FALSE] IN
       Step(IF x.connectionState \notin {"connected", "connecting"}
            THEN connectWebSocket(x) ELSE scheduleReconnect([x EXCEPT !.skipped = @ + 1]))

\* the callback of the timer of scheduleReconnect
RetryTimerFires ==
    /\ bg.timers > 0
    /\ LET x == [bg EXCEPT !.timers = @ - 1, !.retryTimeout = FALSE] IN
       Step(IF x.connectionState \notin {"connected", "connecting"}
            THEN connectWebSocket(x) ELSE [x EXCEPT !.skipped = @ + 1])

\* setupOffscreenDocument after await hasOffscreenDocument(path)
SetupHasResolves ==
    /\ bg.tasks["setup_has"] > 0
    /\ LET x == [bg EXCEPT !.tasks["setup_has"] = @ - 1] IN
       Step(IF x.docExists
            THEN IF ~x.backgroundToOffscreenPort THEN connectPortToOffscreen(x)
                 ELSE IF ~x.offscreenReady THEN x
                 ELSE IF x.connectionState = "connected" THEN startOffscreenAudioCapture(x)
                 ELSE x
            ELSE Spawn([x EXCEPT !.creatingOffscreenDocument = TRUE], "setup_create"))

\* setupOffscreenDocument after await chrome.offscreen.createDocument(...),
\* which rejects when an offscreen document exists already
SetupCreateResolves ==
    /\ bg.tasks["setup_create"] > 0
    /\ LET x == [bg EXCEPT !.tasks["setup_create"] = @ - 1] IN
       Step([(IF ~x.docExists
              THEN connectPortToOffscreen([x EXCEPT !.docExists = TRUE])
              ELSE closeWebSocket(setConnectionState(sendErrorToPopup(x), "error"), FALSE))
             EXCEPT !.creatingOffscreenDocument = FALSE])

\* closeOffscreenDocument after await hasOffscreenDocument(...)
CloseHasResolves ==
    /\ bg.tasks["close_has"] > 0
    /\ LET x == [bg EXCEPT !.tasks["close_has"] = @ - 1] IN
       Step(IF x.docExists THEN Spawn(x, "close_closeDocument")
            ELSE finishCloseOffscreenDocument(x))

\* closeOffscreenDocument after await chrome.offscreen.closeDocument(), which
\* rejects when there is no offscreen document (the rest of the call is skipped)
CloseDocumentResolves ==
    /\ bg.tasks["close_closeDocument"] > 0
    /\ LET x == [bg EXCEPT !.tasks["close_closeDocument"] = @ - 1] IN
       Step(IF x.docExists
            THEN finishCloseOffscreenDocument(
                    [x EXCEPT !.docExists = FALSE, !.isRecording = FALSE,
                              !.portQueue = <<>>])
            ELSE x)

\* the port's onMessage listener: handleOffscreenMessage
PortDeliver ==
    /\ bg.backgroundToOffscreenPort
    /\ bg.portQueue # <<>>
    /\ Step(handleOffscreenMessage([bg EXCEPT !.portQueue = Tail(@)], Head(bg.portQueue)))

\* offscreen.js: getUserMedia fails or mediaRecorder.onerror fires; the
\* capture stops and audioError is posted on the port
OffscreenAudioError ==
    /\ bg.isRecording
    /\ bg.backgroundToOffscreenPort
    /\ Step([bg EXCEPT !.isRecording = FALSE, !.portQueue = Append(@, "audioError")])

\* offscreen.js, mediaRecorder.ondataavailable
OffscreenChunk ==
    /\ bg.isRecording
    /\ bg.backgroundToOffscreenPort
    /\ Step([bg EXCEPT !.portQueue = Append(@, "audioChunk")])

\* the port's onDisconnect listener: the offscreen document went away
PortDisconnect ==
    /\ bg.backgroundToOffscreenPort
    /\ bg.docExists
    /\ LET x == [bg EXCEPT !.backgroundToOffscreenPort = FALSE, !.offscreenReady = FALSE,
                           !.docExists = FALSE, !.isRecording = FALSE,
                           !.portQueue = <<>>] IN
       Step(IF x.connectionState \notin {"disconnected", "error"}
            THEN setupOffscreenDocument(setConnectionState(x, "connecting"))
            ELSE x)

ServerMessageTypes == {"error", "ai_ready", "serverContent"}

ExtNext ==
    \/ InitiateConnection
    \/ CloseConnection
    \/ \E j \in 1..MaxSockets : LookupResolves(j)
    \/ \E j \in 1..MaxSockets : SockOpen(j)
    \/ \E j \in 1..MaxSockets, type \in ServerMessageTypes : SockMessage(j, type)
    \/ \E j \in 1..MaxSockets : SockError(j)
    \/ \E j \in 1..MaxSockets : SockClose(j)
    \/ RetryTimerFires
    \/ SetupHasResolves
    \/ SetupCreateResolves
    \/ CloseHasResolves
    \/ CloseDocumentResolves
    \/ PortDeliver
    \/ OffscreenAudioError
    \/ OffscreenChunk
    \/ PortDisconnect

\* --------------------------------------------------- extension: properties

\* the WebSocket objects of x that exist
LiveSockets(x) == {k \in 1..MaxSockets : x.sockets[k].readyState # "NONE"}

\* the WebSocket objects of x that had their error event with ws.onerror
\* attached and not yet their close event
ErroredSockets(x) ==
    {k \in 1..MaxSockets : /\ x.sockets[k].readyState = "CLOSING"
                           /\ x.sockets[k].attached
                           /\ ~x.sockets[k].closeCalled}

\* C4: under consecutive failures the retries are scheduled with the delays
\* 1000, 2000, 4000, 8000, 16000 and the failure after them schedules no timer
\* (the terminal notification is sent instead).
C4_RetriesExhaustedAfterFive ==
    ~bg.restarted =>
        \A n \in DOMAIN bg.scheduled :
            /\ n <= 5
            /\ bg.scheduled[n] = INITIAL_RETRY_DELAY * 2 ^ (n - 1)

\* C5: the n-th retry scheduled since the last reset of the backoff has the
\* delay min(INITIAL_RETRY_DELAY * 2^(n-1), MAX_RETRY_DELAY); the delays are
\* non-decreasing and currentRetryDelay stays within the two constants.
C5_BackoffDelays ==
    /\ \A n \in DOMAIN bg.scheduled :
          bg.scheduled[n] = Min(INITIAL_RETRY_DELAY * 2 ^ (n - 1), MAX_RETRY_DELAY)
    /\ \A n \in 1..(Len(bg.scheduled) - 1) : bg.scheduled[n] <= bg.scheduled[n + 1]
    /\ bg.currentRetryDelay >= INITIAL_RETRY_DELAY
    /\ bg.currentRetryDelay <= MAX_RETRY_DELAY

\* C5 witness: seven retries in a row, the last two at the ceiling.
C5_Witness ==
    /\ Len(bg.scheduled) >= 7
    /\ bg.scheduled[5] = 16000
    /\ bg.scheduled[7] = MAX_RETRY_DELAY

\* C6: from the handling of closeConnection until the next initiateConnection
\* no retry timer is pending, connectionInitiatedByUser is false and
\* currentRetryDelay is INITIAL_RETRY_DELAY.
C6_StopCancelsRetry ==
    bg.stopped =>
        /\ ~bg.retryTimeout
        /\ bg.timers = 0
        /\ ~bg.connectionInitiatedByUser
        /\ bg.currentRetryDelay = INITIAL_RETRY_DELAY

\* C6 witness: closeConnection was handled while a retry timer was pending,
\* and a transport of the stopped attempt has failed since.
C6_Witness ==
    /\ bg.stopped
    /\ bg.retriedBeforeStop
    /\ bg.connectionState = "error"

\* C7: after a manual stop and until the next initiateConnection the state
\* stays disconnected and no WebSocket is created.
C7_StoppedStaysDisconnected ==
    bg.stopped => bg.connectionState = "disconnected" /\ bg.ws = 0

\* C16: every step that takes connectionState to connected leaves the
\* WebSocket open and offscreenReady true.
C16_ConnectedNeedsBothSignals ==
    [][(bg.connectionState # "connected" /\ bg'.connectionState = "connected")
          => (wsOpen(bg') /\ bg'.offscreenReady)]_vars

\* C17: at most one timer of scheduleReconnect is outstanding, and it is the
\* one retryTimeout refers to: no timer is created while one is pending and
\* every timer is fired or cancelled before the next is created.
C17_OneRetryTimer ==
    /\ bg.timers <= 1
    /\ bg.retryTimeout <=> (bg.timers = 1)

\* C17 witness: a second timer is pending, created after the first had fired.
C17_Witness ==
    /\ bg.retryTimeout
    /\ bg.timers = 1
    /\ Len(bg.scheduled) >= 2

\* C23: when a transport close, a failure to create the offscreen document
\* or a message of the offscreen document takes the state from connecting or
\* connected to error while connectionInitiatedByUser is true, a retry timer is
\* pending at the end of the step.
C23_ErrorSchedulesRetry ==
    [][(/\ \/ \E j \in 1..MaxSockets : SockClose(j)
           \/ SetupCreateResolves
           \/ PortDeliver
        /\ bg.connectionState \in {"connecting", "connected"}
        /\ bg.connectionInitiatedByUser
        /\ bg'.connectionState = "error")
          => bg'.retryTimeout]_vars

\* C24: a retry timer that fires while connectionState is connected or
\* connecting clears retryTimeout and changes nothing else: no lookup is
\* started, no WebSocket is created, connectionState and currentRetryDelay stay.
C24_SkippedRetryIsNoOp ==
    [][(bg.connectionState \in {"connected", "connecting"} /\ RetryTimerFires)
          => bg' = [bg EXCEPT !.retryTimeout = FALSE, !.timers = @ - 1,
                              !.skipped = 1, !.notified = 0,
                              !.cancelled = 0]]_vars

\* C24 witness: a timer has fired while connecting, with the lookup of the
\* attempt that was under way still pending.
C24_Witness ==
    /\ bg.skipped = 1
    /\ bg.connectionState = "connecting"
    /\ bg.lookups = 1
    /\ ~bg.retryTimeout

C26_DisconnectedOnlyByCloseConnection ==
    [][(bg.connectionState # "disconnected" /\ bg'.connectionState = "disconnected")
          => CloseConnection]_vars

\* C26 witness: closeConnection was handled while connected: the state is
\* disconnected, the WebSocket is gone and the offscreen document, still
\* marked ready, is about to be closed.
C26_Witness ==
    /\ bg.stopped
    /\ bg.connectionState = "disconnected"
    /\ bg.ws = 0
    /\ bg.offscreenReady
    /\ bg.docExists
    /\ bg.tasks["close_has"] = 1

\* C27: at the end of every step that leaves connectionState at connected no
\* retry timer is pending and currentRetryDelay is INITIAL_RETRY_DELAY, and
\* the first retry scheduled by a step that starts in connected has the delay
\* INITIAL_RETRY_DELAY.
C27_ConnectedResetsBackoff ==
    [][/\ bg'.connectionState = "connected" =>
            /\ ~bg'.retryTimeout
            /\ bg'.timers = 0
            /\ bg'.currentRetryDelay = INITIAL_RETRY_DELAY
       /\ (bg.connectionState = "connected" /\ bg'.timers > bg.timers) =>
            bg'.scheduled = <<INITIAL_RETRY_DELAY>>]_vars

\* C27 witness: the handler that ran last took the state to connected and
\* cancelled a retry timer that was pending.
C27_Witness ==
    /\ bg.connectionState = "connected"
    /\ bg.cancelled = 1
    /\ wsOpen(bg)

\* C28: the handling of closeConnection leaves the WebSocket that was current
\* with its handlers detached and ws null, and no open, message, error or
\* close event of a WebSocket closed this way changes connectionState or the
\* retry state or sends an error notification.
C28_ClosedTransportIsSilent ==
    [][\A j \in 1..MaxSockets :
          /\ (bg.ws = j /\ bg'.stopped /\ CloseConnection) =>
                /\ bg'.ws = 0
                /\ Cardinality({k \in 1..MaxSockets : bg'.sockets[k] = ClosedSocket})
                     = Cardinality({k \in 1..MaxSockets : bg.sockets[k] = ClosedSocket}) + 1
                /\ \A k \in 1..MaxSockets : bg'.sockets[k].closeCalled => ~bg'.sockets[k].attached
          /\ (/\ bg.sockets[j].closeCalled
              /\ IF Cardinality(LiveSockets(bg')) < Cardinality(LiveSockets(bg))
                 THEN SockClose(j)
                 ELSE \/ SockOpen(j)
                      \/ \E type \in ServerMessageTypes : SockMessage(j, type)
                      \/ SockError(j)) =>
                /\ bg'.connectionState = bg.connectionState
                /\ bg'.retryTimeout = bg.retryTimeout
                /\ bg'.timers = bg.timers
                /\ bg'.currentRetryDelay = bg.currentRetryDelay
                /\ bg'.scheduled = bg.scheduled
                /\ bg'.connectionInitiatedByUser = bg.connectionInitiatedByUser
                /\ bg'.notified = 0
                /\ (bg.ws = 0) = (bg'.ws = 0)]_vars

\* C28 witness: closeConnection was just handled while connected: the state
\* is disconnected, ws is null and the WebSocket that was current has had
\* close() called with its handlers detached; its close event is still to come.
C28_Witness ==
    \E j \in 1..MaxSockets :
        /\ bg.sockets[j] = ClosedSocket
        /\ bg.stopped
        /\ bg.ws = 0
        /\ bg.connectionState = "disconnected"
        /\ bg.offscreenReady
        /\ bg.tasks["close_has"] = 1
        /\ bg.lookups = 0

\* C32: the handling of an error message of the server ends with the state
\* error, ws null, no WebSocket left open with its handlers attached and no
\* retry timer; and from then until initiateConnection is handled no call of
\* getCurrentFitboxTab() is started, no WebSocket is created, no retry timer is
\* set and the state connected is not entered.
C32_ServerErrorIsFinal ==
    [][/\ (bg'.serverError /\ bg'.notified = 1
              /\ \E j \in 1..MaxSockets : SockMessage(j, "error")) =>
             /\ bg'.connectionState = "error"
             /\ bg'.ws = 0
             /\ ~bg'.retryTimeout
             /\ bg'.timers = 0
             /\ \A k \in 1..MaxSockets :
                   bg'.sockets[k].attached =>
                       bg'.sockets[k].readyState \notin {"CONNECTING", "OPEN"}
       /\ (bg.serverError /\ bg'.serverError) =>
             /\ bg'.lookups = bg.lookups
             /\ bg'.timers = 0
             /\ bg'.connectionState # "connected"]_vars


\* C34: in every state, if a retry timer is pending then
\* connectionInitiatedByUser is true and connectionState is error or
\* connecting; no retry timer is pending while the state is connected or
\* disconnected.
C34_RetryTimerOnlyWhileTrying ==
    bg.retryTimeout =>
        /\ bg.connectionInitiatedByUser
        /\ bg.connectionState \in {"error", "connecting"}

\* C34 witness: initiateConnection was handled during the backoff: the state
\* is connecting with the retry timer still pending and the lookup of the tab
\* under way.
C34_Witness ==
    /\ bg.retryTimeout
    /\ bg.timers = 1
    /\ bg.connectionState = "connecting"
    /\ bg.connectionInitiatedByUser
    /\ bg.lookups = 1
    /\ bg.scheduled # <<>>

\* C35: in every state between two handlers, connectionState connected
\* implies that ws is not null and names a WebSocket with its handlers
\* attached; so a handler that clears ws leaves the state connected before it
\* returns.
C35_ConnectedHasTransport ==
    bg.connectionState = "connected" =>
        /\ bg.ws # 0
        /\ bg.sockets[bg.ws].attached
        /\ bg.sockets[bg.ws].readyState # "NONE"

\* C35 witness: the state is connected with ws open and the capture running,
\* while a WebSocket of an earlier attempt still exists.
C35_Witness ==
    /\ bg.connectionState = "connected"
    /\ wsOpen(bg)
    /\ bg.isRecording
    /\ \E k \in LiveSockets(bg) : k # bg.ws

\* C36: at most one WebSocket that is connecting or open has its handlers
\* attached at a time, and the close event of a WebSocket that ws does not
\* name leaves ws as it is.
C36_OneAttachedSocket ==
    [][/\ Cardinality({k \in 1..MaxSockets :
                          /\ bg'.sockets[k].attached
                          /\ bg'.sockets[k].readyState \in {"CONNECTING", "OPEN"}}) <= 1
       /\ \A j \in 1..MaxSockets :
             (/\ bg.ws # 0
              /\ bg.ws # j
              /\ bg.sockets[j].attached
              /\ Cardinality(LiveSockets(bg')) < Cardinality(LiveSockets(bg))
              /\ SockClose(j)) => bg'.ws # 0]_vars

\* no promise, timer, port message or WebSocket event of x is outstanding:
\* nothing happens unless the popup, the relay or the offscreen document acts
NothingPending(x) ==
    /\ x.lookups = 0
    /\ \A pc \in TaskPcs : x.tasks[pc] = 0
    /\ x.portQueue = <<>>
    /\ x.timers = 0
    /\ \A k \in 1..MaxSockets : x.sockets[k].readyState \notin {"CONNECTING", "CLOSING"}

\* C37: whenever connectionState is connecting it eventually becomes
\* connected, error or disconnected; so a state that is connecting with the
\* WebSocket open and no event outstanding does not last for ever.
C37_ConnectingEnds ==
    (bg.connectionState = "connecting" /\ wsOpen(bg) /\ NothingPending(bg))
        ~> ~(bg.connectionState = "connecting" /\ wsOpen(bg) /\ NothingPending(bg))

\* C38: on every WebSocket start_ai_session is the first message the
\* extension sends: whenever the audioChunk case of handleOffscreenMessage
\* sends a chunk, start_ai_session has been sent on that WebSocket before.
C38_StartBeforeAudio ==
    [][(/\ bg.portQueue # <<>>
        /\ Head(bg.portQueue) = "audioChunk"
        /\ audioChunkSentOn(bg) # 0
        /\ PortDeliver) => bg.sockets[audioChunkSentOn(bg)].session # "none"]_vars

\* C39: no audio chunk is sent on a WebSocket before ai_ready has been
\* received on it.
C39_AudioAfterAiReady ==
    [][(/\ bg.portQueue # <<>>
        /\ Head(bg.portQueue) = "audioChunk"
        /\ audioChunkSentOn(bg) # 0
        /\ PortDeliver) => bg.sockets[audioChunkSentOn(bg)].session = "ready"]_vars

\* ------------------------------------------------- relay: knowledge.js
\* A screen identifier is a name written in lower case, with whether the
\* string has it in upper case and where the string has white space around it.
ScreenNames == {"add_member", "edit_member", "view_schedule", "book_class", "default",
                "initial", "", "members", "tostring", "constructor", "__proto__"}

Paddings == {"none", "left", "right", "both"}

Screens == [name : ScreenNames, upper : BOOLEAN, pad : Paddings]

\* the keys of the object literal fitboxKnowledge
fitboxKnowledgeKeys == {"add_member", "edit_member", "view_schedule", "book_class",
                        "default", "initial"}

\* String.prototype.toLowerCase
toLowerCase(str) == [str EXCEPT !.upper = FALSE]

\* String.prototype.trim
trim(str) == [str EXCEPT !.pad = "none"]

\* the empty string, the only string that is false in a condition
IsEmptyString(str) == str.name = "" /\ str.pad = "none"

\* fitboxKnowledge[screenKey]: an own property, a property inherited from
\* Object.prototype, or undefined
fitboxKnowledge(key) ==
    IF key.upper \/ key.pad # "none" THEN [type |-> "undefined", of |-> ""]
    ELSE IF key.name \in fitboxKnowledgeKeys THEN [type |-> "string", of |-> key.name]
    ELSE IF key.name = "constructor" THEN [type |-> "function", of |-> "Object"]
    ELSE IF key.name = "__proto__" THEN [type |-> "object", of |-> "Object.prototype"]
    ELSE [type |-> "undefined", of |-> ""]

DefaultKey == [name |-> "default", upper |-> FALSE, pad |-> "none"]

\* getKnowledgeForScreen(screen); context.substring(0, 50) throws a TypeError
\* when context is not a string
getKnowledgeForScreen(screen) ==
    LET screenKey == IF IsEmptyString(screen) THEN DefaultKey ELSE trim(toLowerCase(screen))
        found == fitboxKnowledge(screenKey)
        context == IF found.type = "undefined" THEN fitboxKnowledge(DefaultKey) ELSE found
    IN IF context.type = "string" THEN [returned |-> context] ELSE [thrown |-> "TypeError"]

KnowledgeInit ==
    \E screen \in Screens : kb = [screen |-> screen, result |-> [pending |-> TRUE]]

\* the call of getKnowledgeForScreen
GetKnowledgeForScreen ==
    /\ "pending" \in DOMAIN kb.result
    /\ kb' = [kb EXCEPT !.result = getKnowledgeForScreen(kb.screen)]
    /\ UNCHANGED <<relayVars, bg>>

\* the call that wss.on('connection') made for the connection followed:
\* no screen parameter in the URL, so the identifier is 'initial'
KnowledgeAtRest ==
    kb = [screen |-> [name |-> "initial", upper |-> FALSE, pad |-> "none"],
          result |-> [returned |-> [type |-> "string", of |-> "initial"]]]

\* C22: getKnowledgeForScreen returns a context string for every string, and
\* the entry 'default' for every string that, in lower case and trimmed, is
\* not a key of fitboxKnowledge.
C22_KnowledgeLookupTotal ==
    "pending" \notin DOMAIN kb.result =>
        /\ "returned" \in DOMAIN kb.result
        /\ kb.result.returned.type = "string"
        /\ (IsEmptyString(kb.screen) \/ kb.screen.name \notin fitboxKnowledgeKeys)
              => kb.result.returned.of = "default"

\* wss.on('connection') calls getKnowledgeForScreen(screenContext) with the
\* screen parameter of the request URL, outside any try: what the call throws
\* leaves the listener, and with no handler of uncaughtException in index.js
\* the exception ends the process
uncaughtException ==
    /\ "thrown" \in DOMAIN kb.result
    /\ kb.result.thrown = "TypeError"

\* C33: no failure inside a handler of the relay leaves it: the process never
\* has an uncaught exception from the computation of the initial context of a
\* connection.
C33_NoFailureEscapes ==
    ~uncaughtException

\* ------------------------------------------------------- specifications
\* the relay with one client connection, the extension part at rest
RelaySpecInit == RelayInit /\ ExtInit /\ KnowledgeAtRest

RelaySpec == RelaySpecInit /\ [][RelayNext]_vars

\* the relay part at rest: no client has connected
RelayAtRest ==
    /\ build = "server"
    /\ env = "configured"
    /\ clientReadyState = "OPEN"
    /\ wsGeminiSession = 0
    /\ sessions = <<>>
    /\ toClient = <<>>
    /\ clientFrames = 0
    /\ upstreamFrames = 0
    /\ starts = 0
    /\ binaryIn = <<>>
    /\ clientClosedOn = "none"

\* the connection supervisor of the extension
ExtSpecInit == ExtInit /\ RelayAtRest /\ KnowledgeAtRest

\* the supervisor with the record of what was sent and received
ExtHistorySpecInit ==
    /\ bg = [InitialGlobals EXCEPT !.history = TRUE]
    /\ RelayAtRest
    /\ KnowledgeAtRest

ExtHistorySpec == ExtHistorySpecInit /\ [][ExtNext]_vars

ExtSpec == ExtSpecInit /\ [][ExtNext]_vars

\* What the browser is bound to do for the supervisor: a promise of
\* chrome.tabs or chrome.offscreen settles, a timer fires, a message posted on
\* the port is delivered, a WebSocket that is connecting opens or fails, and
\* one that is closing gets its close event.  The popup, the relay and the
\* microphone are bound to nothing.
ExtFairness ==
    /\ WF_vars(\E j \in 1..MaxSockets : LookupResolves(j))
    /\ WF_vars(\E j \in 1..MaxSockets :
                   bg.sockets[j].readyState = "CONNECTING" /\ (SockOpen(j) \/ SockClose(j)))
    /\ WF_vars(\E j \in 1..MaxSockets :
                   bg.sockets[j].readyState = "CLOSING" /\ SockClose(j))
    /\ WF_vars(RetryTimerFires)
    /\ WF_vars(SetupHasResolves)
    /\ WF_vars(SetupCreateResolves)
    /\ WF_vars(CloseHasResolves)
    /\ WF_vars(CloseDocumentResolves)
    /\ WF_vars(PortDeliver)

\* the connection supervisor with the browser doing its part
ExtFairSpec == ExtSpecInit /\ [][ExtNext]_vars /\ ExtFairness

\* the knowledge lookup called with any screen identifier
KnowledgeSpecInit == KnowledgeInit /\ RelayAtRest /\ ExtInit

KnowledgeNext == GetKnowledgeForScreen

KnowledgeSpec == KnowledgeSpecInit /\ [][KnowledgeNext]_vars

====
